---------------------------- MODULE Spec2Model ----------------------------
(***************************************************************************)
(* Z-scan plotter (src/app.py): process_and_plot and the batch loop over   *)
(* uploaded_files.                                                         *)
(*                                                                         *)
(* Text is modelled character by character: a line is a sequence of        *)
(* one-character strings.  A float is modelled as a fixed-point integer    *)
(* counting tenths (the line pools below use at most one fractional        *)
(* digit, no exponent, no inf/nan, no underscores).                        *)
(***************************************************************************)
EXTENDS Integers, Sequences, FiniteSets, TLC

VARIABLES
    lines,              \* file_content.decode('utf-8').splitlines()
    pc,                 \* position inside process_and_plot
    exc,                \* the exception process_and_plot raised ("none" if none)
    line_no,            \* number of lines the delimited loop has consumed
    distances,          \* the list distances
    voltages,           \* the list voltages
    sort_indices,       \* np.argsort(dist_arr)
    dist_arr,           \* dist_arr after line 46
    volt_arr,           \* volt_arr after line 47
    window_len,         \* window_len after line 53
    smoothed_voltages,  \* smoothed_voltages after line 59
    uploaded_files,     \* the batch: a sequence of [name, content]
    file_idx,           \* i of enumerate(zip(uploaded_files, tabs)), 0-based
    zip_file,           \* entries written to zip_file, in order
    st_errors,          \* st.error messages shown, in order
    bpc                 \* position of the batch loop

vars == <<lines, pc, exc, line_no, distances, voltages, sort_indices, dist_arr,
          volt_arr, window_len, smoothed_voltages, uploaded_files, file_idx,
          zip_file, st_errors, bpc>>

pipeVars == <<lines, pc, exc, line_no, distances, voltages, sort_indices,
              dist_arr, volt_arr, window_len, smoothed_voltages>>

batchVars == <<uploaded_files, file_idx, zip_file, st_errors, bpc>>

(***************************************************************************)
(* Bounds of the model.                                                    *)
(***************************************************************************)
MaxDelimLines == 3
MaxStructLines == 5
MaxSamples == 3
MaxN == 12
MaxFiles == 3

(***************************************************************************)
(* Program constants.                                                      *)
(***************************************************************************)
DefaultWindow == 11
MinWindow == 3
polyorder == 3

Marker ==
    <<"*","*","*","E","n","d","_","o","f","_","H","e","a","d","e","r","*","*","*">>

PlotSuffix ==
    <<"_","p","l","o","t",".","p","n","g">>

(***************************************************************************)
(* Generic helpers.                                                        *)
(***************************************************************************)
Min(a, b) == IF a <= b THEN a ELSE b

SetMin(S) == CHOOSE x \in S : \A y \in S : x <= y

SetMax(S) == CHOOSE x \in S : \A y \in S : y <= x

SeqsUpTo(S, n) == UNION {[1..k -> S] : k \in 0..n}

SeqsFrom(S, lo, hi) == UNION {[1..k -> S] : k \in lo..hi}

(***************************************************************************)
(* Python str operations on character sequences.                           *)
(***************************************************************************)
Whitespace == {" ", "\t"}

Digits == {"0","1","2","3","4","5","6","7","8","9"}

DigitVal(c) ==
    CASE c = "0" -> 0 [] c = "1" -> 1 [] c = "2" -> 2 [] c = "3" -> 3
      [] c = "4" -> 4 [] c = "5" -> 5 [] c = "6" -> 6 [] c = "7" -> 7
      [] c = "8" -> 8 [] c = "9" -> 9

\* sub in s
Contains(s, sub) ==
    \E k \in 1..(Len(s) - Len(sub) + 1) : SubSeq(s, k, k + Len(sub) - 1) = sub

\* s.strip()
Strip(s) ==
    LET keep == {k \in 1..Len(s) : s[k] \notin Whitespace}
    IN  IF keep = {} THEN <<>> ELSE SubSeq(s, SetMin(keep), SetMax(keep))

\* s.split(sep), sep one character
RECURSIVE Split(_, _)
Split(s, sep) ==
    LET at == {k \in 1..Len(s) : s[k] = sep}
    IN  IF at = {} THEN <<s>>
        ELSE <<SubSeq(s, 1, SetMin(at) - 1)>>
                 \o Split(SubSeq(s, SetMin(at) + 1, Len(s)), sep)

AllDigits(s) == \A k \in 1..Len(s) : s[k] \in Digits

RECURSIVE DecVal(_)
DecVal(s) ==
    IF s = <<>> THEN 0
    ELSE DecVal(SubSeq(s, 1, Len(s) - 1)) * 10 + DigitVal(s[Len(s)])

\* float(s): [ok |-> FALSE] stands for ValueError; val counts tenths.
float(s) ==
    LET t     == Strip(s)
        neg   == t # <<>> /\ t[1] = "-"
        u     == IF t # <<>> /\ t[1] \in {"+", "-"} THEN Tail(t) ELSE t
        parts == Split(u, ".")
        ip    == parts[1]
        fp    == IF Len(parts) >= 2 THEN parts[2] ELSE <<>>
        ok    == /\ Len(parts) <= 2
                 /\ AllDigits(ip)
                 /\ AllDigits(fp)
                 /\ Len(ip) + Len(fp) > 0
        mag   == DecVal(ip) * 10 + (IF fp = <<>> THEN 0 ELSE DigitVal(fp[1]))
    IN  IF ok THEN [ok |-> TRUE, val |-> IF neg THEN 0 - mag ELSE mag]
        ELSE [ok |-> FALSE, val |-> 0]

(***************************************************************************)
(* Format detection and the structured strategy (lines 13-27).             *)
(***************************************************************************)
HasMarker(line) == Contains(line, Marker)

\* any("***End_of_Header***" in line for line in lines)
IsStructured(ls) == \E k \in 1..Len(ls) : HasMarker(ls[k])

\* 0-based indices of the lines holding the marker
MarkerLines(ls) == {k - 1 : k \in {j \in 1..Len(ls) : HasMarker(ls[j])}}

\* the loop without its break: the offset follows the last marker line
data_start_idx_no_break(ls) ==
    LET m == MarkerLines(ls)
    IN  IF Cardinality(m) >= 2 THEN SetMax(m) + 2 ELSE 0

\* the loop of lines 14-21: i + 2 for the second marker line, 0 if the loop
\* ends without header_count reaching 2
data_start_idx(ls) ==
    LET m == MarkerLines(ls)
    IN  IF Cardinality(m) >= 2 THEN SetMin(m \ {SetMin(m)}) + 2 ELSE 0

\* [float(val) for val in row if val.strip()] over row = line.strip().split('\t')
RowFields(line) ==
    SelectSeq(Split(Strip(line), "\t"), LAMBDA f : Strip(f) # <<>>)

RowParses(line) == \A k \in 1..Len(RowFields(line)) : float(RowFields(line)[k]).ok

RowValues(line) == [k \in 1..Len(RowFields(line)) |-> float(RowFields(line)[k]).val]

\* lines 14-27 as a whole: the exception raised, or the two lists
ExtractStructured(ls) ==
    LET d == data_start_idx(ls)
    IN  IF d + 1 > Len(ls) \/ d + 2 > Len(ls)
        THEN [exc |-> "IndexError", distances |-> <<>>, voltages |-> <<>>]
        ELSE IF ~RowParses(ls[d + 1]) \/ ~RowParses(ls[d + 2])
        THEN [exc |-> "ValueError", distances |-> <<>>, voltages |-> <<>>]
        ELSE [exc |-> "none", distances |-> RowValues(ls[d + 1]),
              voltages |-> RowValues(ls[d + 2])]

(***************************************************************************)
(* The delimited strategy (lines 30-38), one line at a time.               *)
(***************************************************************************)
\* the body of "for line in lines" applied to the lists ds, vs
ScanOne(line, ds, vs) ==
    LET parts == Split(line, ",")
    IN  IF Strip(line) = <<>> \/ Len(parts) < 2
        THEN [distances |-> ds, voltages |-> vs]
        ELSE LET d == float(Strip(parts[1]))
                 v == float(Strip(parts[2]))
             IN  IF ~d.ok THEN [distances |-> ds, voltages |-> vs]
                 ELSE IF ~v.ok
                 THEN [distances |-> Append(ds, d.val), voltages |-> vs]
                 ELSE [distances |-> Append(ds, d.val),
                       voltages |-> Append(vs, v.val)]

RECURSIVE ExtractDelimited(_)
ExtractDelimited(ls) ==
    IF ls = <<>> THEN [distances |-> <<>>, voltages |-> <<>>]
    ELSE LET r == ExtractDelimited(SubSeq(ls, 1, Len(ls) - 1))
         IN  ScanOne(ls[Len(ls)], r.distances, r.voltages)

(***************************************************************************)
(* Normalisation (lines 41-47).                                            *)
(***************************************************************************)
Perms(n) == {p \in [1..n -> 1..n] : \A a, b \in 1..n : a # b => p[a] # p[b]}

\* the sort left out: the indices in input order
ArgSorts_unsorted(a) == {[k \in 1..Len(a) |-> k]}

\* np.argsort(a), default kind (quicksort, not stable): every index order that
\* sorts a, ties in any order
ArgSorts(a) ==
    {p \in Perms(Len(a)) : \A k \in 1..(Len(a) - 1) : a[p[k]] <= a[p[k + 1]]}

\* a[idx] for an index array idx; IndexError when an index is out of bounds
TakeRaises(a, idx) == \E k \in 1..Len(idx) : idx[k] > Len(a)

Take(a, idx) == [k \in 1..Len(idx) |-> a[idx[k]]]

(***************************************************************************)
(* Smoothing (lines 51-59).                                                *)
(***************************************************************************)
\* the window without the parity adjustment
WindowLength_no_parity(n) ==
    LET w == Min(DefaultWindow, n)
    IN  IF w < MinWindow THEN MinWindow ELSE w

\* lines 51-53
WindowLength(n) ==
    LET w == Min(DefaultWindow, n - (IF n % 2 # 0 THEN 0 ELSE 1))
    IN  IF w < MinWindow THEN MinWindow ELSE w

\* scipy.signal.savgol_filter(x, window_length=w, polyorder=3), mode 'interp':
\* ValueError when polyorder >= window_length or window_length > len(x)
SavgolRaises(x, w) == polyorder >= w \/ w > Len(x)

Raw(v) == [kind |-> "raw", val |-> v, win |-> <<>>, at |-> 0]

\* The value at position at of the degree-3 least-squares polynomial fitted to
\* the window win, kept as a term.
PolyFit(win, at) == [kind |-> "polyfit", val |-> 0, win |-> win, at |-> at]

\* the filter without edge handling: only the points with a full window
savgol_filter_valid(x, w) ==
    [k \in 1..(Len(x) - w + 1) |-> PolyFit(SubSeq(x, k, k + w - 1), w \div 2 + 1)]

\* Interior points use the window centred on them; the first and last w \div 2
\* points are read off the polynomial fitted to the first and last w samples.
savgol_filter(x, w) ==
    LET n == Len(x)
        h == w \div 2
    IN  [k \in 1..n |->
            IF k <= h THEN PolyFit(SubSeq(x, 1, w), k)
            ELSE IF k > n - h THEN PolyFit(SubSeq(x, n - w + 1, n), k - (n - w))
            ELSE PolyFit(SubSeq(x, k - h, k + h), h + 1)]

\* the fallback replaced by an array of zeros
Smoothed_zero_fallback(x, w) ==
    IF SavgolRaises(x, w) THEN [k \in 1..Len(x) |-> Raw(0)]
    ELSE savgol_filter(x, w)

\* lines 55-59: the filter, or volt_arr itself when the filter raises
Smoothed(x, w) ==
    IF SavgolRaises(x, w) THEN [k \in 1..Len(x) |-> Raw(x[k])]
    ELSE savgol_filter(x, w)

(***************************************************************************)
(* process_and_plot, step by step.                                         *)
(***************************************************************************)
\* line 13
Detect ==
    /\ pc = "detect"
    /\ IF IsStructured(lines)
       THEN pc' = "structured"
       ELSE pc' = "scan"
    /\ UNCHANGED <<lines, exc, line_no, distances, voltages, sort_indices,
                   dist_arr, volt_arr, window_len, smoothed_voltages>>
    /\ UNCHANGED batchVars

\* lines 14-27
StructuredExtract ==
    /\ pc = "structured"
    /\ exc' = ExtractStructured(lines).exc
    /\ distances' = ExtractStructured(lines).distances
    /\ voltages' = ExtractStructured(lines).voltages
    /\ pc' = IF ExtractStructured(lines).exc = "none" THEN "normalize" ELSE "raised"
    /\ UNCHANGED <<lines, line_no, sort_indices, dist_arr, volt_arr,
                   window_len, smoothed_voltages>>
    /\ UNCHANGED batchVars

\* one iteration of the loop of lines 30-38
ScanLine ==
    /\ pc = "scan"
    /\ line_no < Len(lines)
    /\ distances' = ScanOne(lines[line_no + 1], distances, voltages).distances
    /\ voltages' = ScanOne(lines[line_no + 1], distances, voltages).voltages
    /\ line_no' = line_no + 1
    /\ UNCHANGED <<lines, pc, exc, sort_indices, dist_arr, volt_arr,
                   window_len, smoothed_voltages>>
    /\ UNCHANGED batchVars

\* the loop of lines 30-38 is exhausted
ScanDone ==
    /\ pc = "scan"
    /\ line_no = Len(lines)
    /\ pc' = "normalize"
    /\ UNCHANGED <<lines, exc, line_no, distances, voltages, sort_indices,
                   dist_arr, volt_arr, window_len, smoothed_voltages>>
    /\ UNCHANGED batchVars

\* lines 41-47
Normalize ==
    /\ pc = "normalize"
    /\ \E p \in ArgSorts(distances) :
          /\ sort_indices' = p
          /\ dist_arr' = Take(distances, p)
          /\ IF TakeRaises(voltages, p)
             THEN /\ exc' = "IndexError"
                  /\ pc' = "raised"
                  /\ volt_arr' = volt_arr
             ELSE /\ exc' = exc
                  /\ pc' = "window"
                  /\ volt_arr' = Take(voltages, p)
    /\ UNCHANGED <<lines, line_no, distances, voltages, window_len,
                   smoothed_voltages>>
    /\ UNCHANGED batchVars

\* lines 51-53
ComputeWindow ==
    /\ pc = "window"
    /\ window_len' = WindowLength(Len(dist_arr))
    /\ pc' = "smooth"
    /\ UNCHANGED <<lines, exc, line_no, distances, voltages, sort_indices,
                   dist_arr, volt_arr, smoothed_voltages>>
    /\ UNCHANGED batchVars

\* lines 55-59
Smooth ==
    /\ pc = "smooth"
    /\ smoothed_voltages' = Smoothed(volt_arr, window_len)
    /\ pc' = "plot"
    /\ UNCHANGED <<lines, exc, line_no, distances, voltages, sort_indices,
                   dist_arr, volt_arr, window_len>>
    /\ UNCHANGED batchVars

\* lines 61-82: the figure is drawn and the buffer returned
Plot ==
    /\ pc = "plot"
    /\ pc' = "returned"
    /\ UNCHANGED <<lines, exc, line_no, distances, voltages, sort_indices,
                   dist_arr, volt_arr, window_len, smoothed_voltages>>
    /\ UNCHANGED batchVars

(***************************************************************************)
(* Documents.                                                              *)
(***************************************************************************)
DelimPool ==
    { <<"1",".","5",",","2",".","3">>,          \* "1.5,2.3"
      <<" ","1",".","5",","," ","4">>,          \* " 1.5, 4"
      <<"0",",","9">>,                          \* "0,9"
      <<"1",".","5",",","a","b","c">>,          \* "1.5,abc"
      <<"a","b","c",",","d","e","f">>,          \* "abc,def"
      <<"7">>,                                  \* "7"
      <<" ">>,                                  \* " "
      <<>> }                                    \* ""

StructPool ==
    { Marker,
      <<"2","\t","1","\t","\t","1">>,           \* "2\t1\t\t1"
      <<"5","\t"," ","\t","6","\t","7","\t">>,  \* "5\t \t6\t7\t"
      <<"3","\t","4">>,                         \* "3\t4"
      <<"x","\t","1">> }                        \* "x\t1"

Docs == SeqsUpTo(DelimPool, MaxDelimLines) \cup SeqsUpTo(StructPool, MaxStructLines)

NoBatch ==
    /\ uploaded_files = <<>>
    /\ file_idx = 0
    /\ zip_file = <<>>
    /\ st_errors = <<>>
    /\ bpc = "none"

FreshCall ==
    /\ exc = "none"
    /\ line_no = 0
    /\ distances = <<>>
    /\ voltages = <<>>
    /\ sort_indices = <<>>
    /\ dist_arr = <<>>
    /\ volt_arr = <<>>
    /\ window_len = 0
    /\ smoothed_voltages = <<>>

\* process_and_plot called on one document
Init ==
    /\ lines \in Docs
    /\ pc = "detect"
    /\ FreshCall
    /\ NoBatch

Next ==
    \/ Detect
    \/ StructuredExtract
    \/ ScanLine
    \/ ScanDone
    \/ Normalize
    \/ ComputeWindow
    \/ Smooth
    \/ Plot

Spec == Init /\ [][Next]_vars

(***************************************************************************)
(* The normaliser and the smoother on lists handed to them directly.       *)
(***************************************************************************)
SampleDistances == {0, 15}

SampleVoltages == {23, 40}

\* process_and_plot stands at line 41 with the two lists the extractor built
InitNorm ==
    /\ lines = <<>>
    /\ pc = "normalize"
    /\ exc = "none"
    /\ line_no = 0
    /\ distances \in SeqsUpTo(SampleDistances, MaxSamples)
    /\ voltages \in SeqsUpTo(SampleVoltages, MaxSamples)
    /\ sort_indices = <<>>
    /\ dist_arr = <<>>
    /\ volt_arr = <<>>
    /\ window_len = 0
    /\ smoothed_voltages = <<>>
    /\ NoBatch

NextNorm ==
    \/ Normalize
    \/ ComputeWindow
    \/ Smooth
    \/ Plot

SpecNorm == InitNorm /\ [][NextNorm]_vars

\* process_and_plot stands at line 51 with N samples already in distance order
InitSmooth ==
    /\ lines = <<>>
    /\ pc = "window"
    /\ exc = "none"
    /\ line_no = 0
    /\ \E n \in 0..MaxN :
          /\ distances = [k \in 1..n |-> 10 * k]
          /\ voltages \in [1..n -> SampleVoltages]
          /\ sort_indices = [k \in 1..n |-> k]
    /\ dist_arr = distances
    /\ volt_arr = voltages
    /\ window_len = 0
    /\ smoothed_voltages = <<>>
    /\ NoBatch

NextSmooth ==
    \/ ComputeWindow
    \/ Smooth
    \/ Plot

SpecSmooth == InitSmooth /\ [][NextSmooth]_vars

(***************************************************************************)
(* The batch loop over uploaded_files (lines 92-131).                      *)
(***************************************************************************)
\* f"{file_name.split('.')[0]}_plot.png"
png_filename(file_name) == Split(file_name, ".")[1] \o PlotSuffix

\* The exception process_and_plot(ls) ends with, "none" if it returns.
process_and_plot_exc(ls) ==
    LET r == IF IsStructured(ls) THEN ExtractStructured(ls)
             ELSE [exc |-> "none",
                   distances |-> ExtractDelimited(ls).distances,
                   voltages |-> ExtractDelimited(ls).voltages]
    IN  IF r.exc # "none" THEN r.exc
        ELSE IF Len(r.distances) > Len(r.voltages) THEN "IndexError"
        ELSE "none"

\* lines 102-106: read the next file and call process_and_plot on it
BatchCall ==
    /\ bpc = "loop"
    /\ file_idx < Len(uploaded_files)
    /\ lines' = uploaded_files[file_idx + 1].content
    /\ pc' = "detect"
    /\ exc' = "none"
    /\ line_no' = 0
    /\ distances' = <<>>
    /\ voltages' = <<>>
    /\ sort_indices' = <<>>
    /\ dist_arr' = <<>>
    /\ volt_arr' = <<>>
    /\ window_len' = 0
    /\ smoothed_voltages' = <<>>
    /\ bpc' = "call"
    /\ UNCHANGED <<uploaded_files, file_idx, zip_file, st_errors>>

\* lines 108-125: the call returned; preview, then zip_file.writestr
BatchWrite ==
    /\ bpc = "call"
    /\ pc = "returned"
    /\ zip_file' = Append(zip_file,
                          [name |-> png_filename(uploaded_files[file_idx + 1].name),
                           doc |-> file_idx])
    /\ file_idx' = file_idx + 1
    /\ bpc' = "loop"
    /\ pc' = "idle"
    /\ UNCHANGED <<lines, exc, line_no, distances, voltages, sort_indices,
                   dist_arr, volt_arr, window_len, smoothed_voltages>>
    /\ UNCHANGED <<uploaded_files, st_errors>>

\* the exception handled outside the loop: the error is shown, the loop ends
BatchExcept_aborts ==
    /\ bpc = "call"
    /\ pc = "raised"
    /\ st_errors' = Append(st_errors, [doc |-> file_idx, exc |-> exc])
    /\ file_idx' = file_idx + 1
    /\ bpc' = "finalized"
    /\ pc' = "idle"
    /\ UNCHANGED <<lines, exc, line_no, distances, voltages, sort_indices,
                   dist_arr, volt_arr, window_len, smoothed_voltages>>
    /\ UNCHANGED <<uploaded_files, zip_file>>

\* lines 127-129: the call raised; st.error in the file's tab
BatchExcept ==
    /\ bpc = "call"
    /\ pc = "raised"
    /\ st_errors' = Append(st_errors, [doc |-> file_idx, exc |-> exc])
    /\ file_idx' = file_idx + 1
    /\ bpc' = "loop"
    /\ pc' = "idle"
    /\ UNCHANGED <<lines, exc, line_no, distances, voltages, sort_indices,
                   dist_arr, volt_arr, window_len, smoothed_voltages>>
    /\ UNCHANGED <<uploaded_files, zip_file>>

\* line 99 (the with block ends: the archive is closed) and line 131
BatchFinalize ==
    /\ bpc = "loop"
    /\ file_idx = Len(uploaded_files)
    /\ bpc' = "finalized"
    /\ UNCHANGED pipeVars
    /\ UNCHANGED <<uploaded_files, file_idx, zip_file, st_errors>>

FilePool ==
    { [name |-> <<"a",".","t","x","t">>,
       content |-> << <<"1",".","5",",","2",".","3">>, <<"0",",","9">> >>],
      [name |-> <<"a",".","c","s","v">>,
       content |-> << <<"1",".","5",",","a","b","c">> >>],
      [name |-> <<"b",".","d","a","t">>,
       content |-> << Marker, Marker, <<>>,
                      <<"2","\t","1","\t","\t","1">>,
                      <<"5","\t"," ","\t","6","\t","7","\t">> >>],
      [name |-> <<"c",".","t","x","t">>,
       content |-> << Marker >>] }

\* line 92: the loop runs only for a non-empty upload
InitBatch ==
    /\ uploaded_files \in SeqsFrom(FilePool, 1, MaxFiles)
    /\ file_idx = 0
    /\ zip_file = <<>>
    /\ st_errors = <<>>
    /\ bpc = "loop"
    /\ lines = <<>>
    /\ pc = "idle"
    /\ FreshCall

NextBatch ==
    \/ BatchCall
    \/ Detect
    \/ StructuredExtract
    \/ ScanLine
    \/ ScanDone
    \/ Normalize
    \/ ComputeWindow
    \/ Smooth
    \/ Plot
    \/ BatchWrite
    \/ BatchExcept
    \/ BatchFinalize

SpecBatch == InitBatch /\ [][NextBatch]_vars

(***************************************************************************)
(* Properties.                                                             *)
(***************************************************************************)
\* A delimited line the specification accepts: non-blank, at least two
\* comma-separated fields, the first two both floats.
AcceptedLine(line) ==
    /\ \E k \in 1..Len(line) : line[k] \notin Whitespace
    /\ Len(Split(line, ",")) >= 2
    /\ float(Split(line, ",")[1]).ok
    /\ float(Split(line, ",")[2]).ok

\* The (distance, voltage) pairs of the accepted lines of ls, in order.
RECURSIVE AcceptedPairs(_)
AcceptedPairs(ls) ==
    IF ls = <<>> THEN <<>>
    ELSE LET front == AcceptedPairs(SubSeq(ls, 1, Len(ls) - 1))
             line  == ls[Len(ls)]
         IN  IF AcceptedLine(line)
             THEN Append(front, <<float(Split(line, ",")[1]).val,
                                  float(Split(line, ",")[2]).val>>)
             ELSE front

\* C1: in the delimited strategy a line whose first two fields are not both
\* floats is skipped as a whole, so after any number of scanned lines the
\* two lists have equal length and distances[i], voltages[i] are the two
\* fields of the i-th accepted line.
C1_SkippedAsAWhole ==
    pc = "scan" =>
        /\ Len(distances) = Len(voltages)
        /\ [k \in 1..Len(distances) |-> <<distances[k], voltages[k]>>]
               = AcceptedPairs(SubSeq(lines, 1, line_no))

\* C2: a structured document whose marker is on exactly one line fails in the
\* extractor; no list is ever built from its other lines.  (The code has no
\* error classes: any exception raised by the extractor is counted as the
\* classified failure here.)
C2_OneMarkerFails ==
    Cardinality(MarkerLines(lines)) = 1 =>
        pc \in {"idle", "detect", "structured", "raised"}

\* 0-based index of the second line holding the marker
SecondMarker(ls) ==
    CHOOSE k \in MarkerLines(ls) : Cardinality({j \in MarkerLines(ls) : j < k}) = 1

\* A row split on tabs, entries without a non-whitespace character dropped.
RetainedFields(line) ==
    SelectSeq(Split(line, "\t"),
              LAMBDA f : \E j \in 1..Len(f) : f[j] \notin Whitespace)

FieldsParse(fs) == \A j \in 1..Len(fs) : float(fs[j]).ok

FieldValues(fs) == [j \in 1..Len(fs) |-> float(fs[j]).val]

\* C3: with at least two marker lines, k the index of the second and lines
\* k+2, k+3 present, the distance row is line k+2 and the voltage row is line
\* k+3, whatever markers follow; each row is split on tabs, blank entries are
\* dropped and the rest parsed in order (a retained entry that is no float
\* raises ValueError).
C3_RowsAfterSecondMarker ==
    (/\ Cardinality(MarkerLines(lines)) >= 2
     /\ pc \notin {"idle", "detect", "structured"}
     /\ SecondMarker(lines) + 3 < Len(lines)) =>
        LET k  == SecondMarker(lines)
            xs == RetainedFields(lines[k + 3])
            ys == RetainedFields(lines[k + 4])
        IN  IF FieldsParse(xs) /\ FieldsParse(ys)
            THEN /\ distances = FieldValues(xs)
                 /\ voltages = FieldValues(ys)
            ELSE /\ pc = "raised"
                 /\ exc = "ValueError"

\* C3 witness: three marker lines, rows read after the second one.
C3_Witness ==
    /\ Cardinality(MarkerLines(lines)) = 3
    /\ pc = "normalize"
    /\ distances = <<20, 10, 10>>
    /\ voltages = <<50, 60, 70>>

\* C8: a delimited document without a valid row returns successfully with an
\* empty sample set and an empty smoothed series.
C8_EmptyIsSuccess ==
    (/\ ~IsStructured(lines)
     /\ \A k \in 1..Len(lines) : ~AcceptedLine(lines[k])
     /\ pc \in {"raised", "returned"}) =>
        /\ pc = "returned"
        /\ dist_arr = <<>>
        /\ volt_arr = <<>>
        /\ smoothed_voltages = <<>>

\* Number of positions i <= n at which (ds[i], vs[i]) is the pair (d, v).
PairCount(ds, vs, n, d, v) ==
    Cardinality({i \in 1..n : ds[i] = d /\ vs[i] = v})

\* The first n pairs of (as, bs) are a rearrangement of the first n of (ds, vs).
SamePairs(ds, vs, as, bs, n) ==
    \A i \in 1..n :
        PairCount(ds, vs, n, ds[i], vs[i]) = PairCount(as, bs, n, ds[i], vs[i])

NonDecreasing(a) == \A i \in 1..(Len(a) - 1) : a[i] <= a[i + 1]

\* C4: for all lists D and V, longer D and longer V included, normalisation
\* succeeds and yields the min(len(D), len(V)) pairs (D[i], V[i]) in distance
\* order; no failure is raised.
C4_PairsUpToShorter ==
    pc # "normalize" =>
        LET n == Min(Len(distances), Len(voltages))
        IN  /\ pc # "raised"
            /\ Len(dist_arr) = n
            /\ Len(volt_arr) = n
            /\ NonDecreasing(dist_arr)
            /\ SamePairs(distances, voltages, dist_arr, volt_arr, n)

C6_SameLengthAligned ==
    (pc \in {"plot", "returned"} /\ Len(volt_arr) >= 1) =>
        /\ Len(smoothed_voltages) = Len(volt_arr)
        /\ Len(smoothed_voltages) = Len(dist_arr)
        /\ \A i \in 1..Len(smoothed_voltages) :
               LET y == smoothed_voltages[i]
               IN  IF y.kind = "raw" THEN y.val = volt_arr[i]
                   ELSE /\ y.at \in 1..Len(y.win)
                        /\ y.win[y.at] = volt_arr[i]

\* C6 witness: the filter ran on six samples (window 5), edges and interior.
C6_Witness ==
    /\ pc = "plot"
    /\ Len(volt_arr) = 6
    /\ window_len = 5
    /\ smoothed_voltages[1].kind = "polyfit"
    /\ smoothed_voltages[3].kind = "polyfit"

\* C7: for N = 1 or 2, and whenever the filter fails for the computed window
\* (window > N, or degree 3 not below the window), the smoothed series is the
\* input sequence itself and the call goes on to return.
C7_FallbackIsInput ==
    /\ pc # "raised"
    /\ (/\ pc \in {"plot", "returned"}
        /\ \/ Len(volt_arr) \in {1, 2}
           \/ window_len > Len(volt_arr)
           \/ 3 >= window_len) =>
           /\ Len(smoothed_voltages) = Len(volt_arr)
           /\ \A i \in 1..Len(volt_arr) :
                  /\ smoothed_voltages[i].kind = "raw"
                  /\ smoothed_voltages[i].val = volt_arr[i]

\* C7 witness: two samples, smoothed series equal to them, call returned.
C7_Witness ==
    /\ pc = "returned"
    /\ volt_arr = <<40, 23>>
    /\ smoothed_voltages = <<Raw(40), Raw(23)>>

BatchRecord ==
    /\ \A j \in 0..(Len(uploaded_files) - 1) :
           LET f       == uploaded_files[j + 1]
               ok      == process_and_plot_exc(f.content) = "none"
               entries == {e \in 1..Len(zip_file) : zip_file[e].doc = j}
               shown   == {e \in 1..Len(st_errors) : st_errors[e].doc = j}
           IN  IF j < file_idx
               THEN /\ Cardinality(entries) = IF ok THEN 1 ELSE 0
                    /\ Cardinality(shown) = IF ok THEN 0 ELSE 1
                    /\ \A e \in entries : zip_file[e].name = png_filename(f.name)
               ELSE entries = {} /\ shown = {}
    /\ \A a, b \in 1..Len(zip_file) : a < b => zip_file[a].doc < zip_file[b].doc
    /\ bpc = "finalized" => file_idx = Len(uploaded_files)

\* The batch has a next step: the loop is at its head with files left or the
\* archive to close, or process_and_plot is at one of its positions.
BatchCanStep ==
    \/ bpc = "loop" /\ file_idx <= Len(uploaded_files)
    \/ /\ bpc = "call"
       /\ pc \in {"detect", "structured", "scan", "normalize", "window",
                  "smooth", "plot", "returned", "raised"}
       /\ pc = "scan" => line_no <= Len(lines)

\* C9: whatever files of the batch fail, a failure is recorded for that file
\* only, every later file is still processed, the loop reaches the end and
\* the archive is closed (the loop stops nowhere short of the closed
\* archive); each file that succeeds has its own archive entry and a failing
\* file has none.
C9_BatchRunsToTheEnd ==
    /\ BatchRecord
    /\ bpc = "finalized" \/ BatchCanStep

\* C9 witness: the first file failed, the second got its entry, the archive
\* is closed.
C9_Witness ==
    /\ bpc = "finalized"
    /\ Len(uploaded_files) = 3
    /\ Len(st_errors) >= 1
    /\ st_errors[1].doc = 0
    /\ Len(zip_file) >= 1
    /\ zip_file[1].doc = 1

=============================================================================
